---- MODULE Spec2Model ----
(***************************************************************************)
(* Two-phase commit of ThunderDB: the coordinator's Put driving the        *)
(* RaftNode workers of the twopc test suite (RPCPrepare / RPCCommit /      *)
(* RPCRollback behind RaftNode.Prepare / Commit / Rollback).               *)
(*                                                                         *)
(* The coordinator (Coordinator.Put) is modelled from section 4.3 of the   *)
(* specification; the workers, the hooks and the test driver are modelled  *)
(* from the twopc test file.                                               *)
(*                                                                         *)
(* The storage worker (Storage.Prepare / Commit / Rollback over one        *)
(* database transaction) and the handle cache of openDB are modelled from  *)
(* the storage package.  The three components share no state: each has    *)
(* its own specification, and the actions of one leave the variables of    *)
(* the others unchanged.                                                   *)
(***************************************************************************)
EXTENDS Integers, Sequences, FiniteSets, TLC

\* ------------------------------------------------------------------ bounds
NumWorkers == 2     \* len(nodes); the test suite runs 10
MaxPuts == 1        \* number of coordinator Put calls in one behaviour
MaxLen == 2         \* longest statement list of an ExecLog
MaxCalls == 3       \* number of Prepare / Commit / Rollback calls on the Storage
NumCallers == 2     \* threads calling storage.New concurrently
MaxBlocks == 3      \* number of block nodes built
MaxRequests == 2    \* Request calls made on the mock transports
MaxAnswers == 2     \* SendResponse calls made on the request handles

Workers == 1..NumWorkers
Kinds == {"Prepare", "Commit", "Rollback"}

\* ------------------------------------------------------- program constants
\* RaftTxState
Initailized == 0
Prepared == 1
Committed == 2
RolledBack == 3
\* TestPolicy
AllGood == 0
FailOnPrepare == 1
FailOnCommit == 2

Policies == {AllGood, FailOnPrepare, FailOnCommit}

\* ------------------------------------------------------------ error values
\* A Go error value: its text (e), the txid formatted into it (tx) and the
\* place that created it (from), which stands for the identity of the value.
Err(e, t, f) == [e |-> e, tx |-> t, from |-> f]
NoErr == Err("nil", 0, "")
Pending == Err("pending", 0, "")
beforePrepareError == Err("before prepare error", 0, "beforePrepare")
beforeCommitError == Err("before commit error", 0, "beforeCommit")
beforeRollbackError == Err("before rollback error", 0, "beforeRollback")
\* etls.Dial / rpc.InitClientConn failure of a worker call
ErrDial(k) == Err("dial error", 0, k)
\* client.Call failing on the connection deadline set from ctx.Deadline()
ErrIOTimeout(k) == Err("i/o timeout", 0, k)
\* the cancellation cause of the coordinator's context
ErrCtx == Err("context deadline exceeded", 0, "ctx")

\* An RPC response; ErrCode = -1 stands for "no response written yet".
Resp(c, s, t) == [ErrCode |-> c, ErrString |-> s, tx |-> t]
NoResp == Resp(-1, "", 0)

VARIABLES
    policy,        \* package variable policy
    node,          \* node[w] = [txid, state] of RaftNodeRPCServer w
    phase,         \* phase of the current Put
    wb,            \* TxID of the batch of the current Put
    call,          \* call[w][k]: progress of the worker call of kind k to w
    resp,          \* resp[w][k]: response written by the RPC handler
    errs,          \* errs[k][w]: error returned by the worker call (client side)
    hooked,        \* hooked[k]: what the hook before phase k returned
    ctxDone,       \* the context of the current Put has fired
    returnErr,     \* the failure recorded by Put (the one it will surface)
    ret,           \* what Put returned
    nput,          \* number of Put calls started
    s,             \* the Storage: s.tx, s.id, s.queries
    dbtx,          \* the transactions begun on s.db, in the order of BeginTx
    last,          \* the Storage call that returned last, and what it returned
    ncalls,        \* number of Storage calls made
    index,         \* index.db: filename -> cached handle
    caller,        \* caller[t]: position and locals of thread t inside New
    handles,       \* number of handles sql.Open has created
    rpc,           \* the handler call made last on a RaftNodeRPCServer directly
    blocks,        \* the block nodes built, in the order they were built
    bindex,        \* bi.index: hash -> block node
    added,         \* the AddBlock call made last
    pks,           \* the public-key store: pks.bucket and the bucket's records
    pkret,         \* the public-key store call that returned last
    live,          \* the node IDs inserted into the bucket and not deleted since
    reqSeq,        \* MockTransportRouter.reqSeq
    transports,    \* MockTransportRouter.transports: queue, waitQueue, giveUp of each
    requests,      \* the goroutines inside Request: position, MockRequest, result
    served,        \* the request handles on the receiving side
    abandoned,     \* the request IDs whose caller has given up
    fatal          \* the runtime has stopped the process (fatal error)

twopcVars == <<policy, node, phase, wb, call, resp, errs, hooked,
               ctxDone, returnErr, ret, nput>>
storageVars == <<s, dbtx, last, ncalls>>
openVars == <<index, caller, handles>>
rpcVars == <<rpc>>
chainVars == <<blocks, bindex, added>>
storeVars == <<pks, pkret, live>>
transportVars == <<reqSeq, transports, requests, served, abandoned, fatal>>
vars == <<twopcVars, storageVars, openVars, rpcVars, chainVars, storeVars, transportVars>>

\* What the actions of one component leave alone.
notTwoPC == <<storageVars, openVars, rpcVars, chainVars, storeVars, transportVars>>
notStorage == <<twopcVars, openVars, rpcVars, chainVars, storeVars, transportVars>>
notOpenDB == <<twopcVars, storageVars, rpcVars, chainVars, storeVars, transportVars>>
\* a handler called directly works on policy and node only
notRPC == <<phase, wb, call, resp, errs, hooked, ctxDone, returnErr, ret, nput,
            storageVars, openVars, chainVars, storeVars, transportVars>>
notChain == <<twopcVars, storageVars, openVars, rpcVars, storeVars, transportVars>>
notStore == <<twopcVars, storageVars, openVars, rpcVars, chainVars, transportVars>>
notTransport == <<twopcVars, storageVars, openVars, rpcVars, chainVars, storeVars>>

Running == Err("running", 0, "")
NotRun == Err("not run", 0, "")

NoCalls == [w \in Workers |-> [k \in Kinds |-> "none"]]
NoResps == [w \in Workers |-> [k \in Kinds |-> NoResp]]
NoErrs == [k \in Kinds |-> [w \in Workers |-> Pending]]
NoHooks == [k \in Kinds |-> NotRun]

\* --------------------------------------------------------------- RPC server
\* The three handlers: the node after the call and the response written.
\* RPCPrepare that answers without moving the node to Prepared.
RPCPrepare_NoStateChange(r, pol, reqTx) ==
    LET inconsistent == r.state = Prepared /\ r.txid # reqTx
        first == IF inconsistent
                 THEN Resp(1, "raft node is in inconsistent state", 0)
                 ELSE Resp(0, "", 0)
    IN  IF pol = FailOnPrepare
        THEN [node |-> r, resp |-> Resp(2, "failed to prepare for txid", reqTx)]
        ELSE [node |-> [r EXCEPT !.txid = reqTx], resp |-> first]

RPCPrepare(r, pol, reqTx) ==
    LET inconsistent == r.state = Prepared /\ r.txid # reqTx
        first == IF inconsistent
                 THEN Resp(1, "raft node is in inconsistent state", 0)
                 ELSE Resp(0, "", 0)
    IN  IF pol = FailOnPrepare
        THEN [node |-> r, resp |-> Resp(2, "failed to prepare for txid", reqTx)]
        ELSE [node |-> [txid |-> reqTx, state |-> Prepared], resp |-> first]

\* RPCCommit that answers without moving the node to Committed.
RPCCommit_NoStateChange(r, pol, reqTx) ==
    LET inconsistent == r.state # Prepared \/ r.txid # reqTx
        first == IF inconsistent
                 THEN Resp(1, "raft node is in inconsistent state", 0)
                 ELSE Resp(0, "", 0)
    IN  IF pol = FailOnCommit
        THEN [node |-> r, resp |-> Resp(2, "failed to commit for txid", reqTx)]
        ELSE [node |-> r, resp |-> first]

RPCCommit(r, pol, reqTx) ==
    LET inconsistent == r.state # Prepared \/ r.txid # reqTx
        first == IF inconsistent
                 THEN Resp(1, "raft node is in inconsistent state", 0)
                 ELSE Resp(0, "", 0)
    IN  IF pol = FailOnCommit
        THEN [node |-> r, resp |-> Resp(2, "failed to commit for txid", reqTx)]
        ELSE [node |-> [r EXCEPT !.state = Committed], resp |-> first]

RPCRollback(r, pol, reqTx) ==
    LET inconsistent == r.state # Prepared \/ r.txid # reqTx
        first == IF inconsistent
                 THEN Resp(1, "raft node is in inconsistent state", 0)
                 ELSE Resp(0, "", 0)
    IN  [node |-> [r EXCEPT !.state = RolledBack], resp |-> first]

Handler(k, r, pol, reqTx) ==
    CASE k = "Prepare" -> RPCPrepare(r, pol, reqTx)
      [] k = "Commit" -> RPCCommit(r, pol, reqTx)
      [] k = "Rollback" -> RPCRollback(r, pol, reqTx)

\* --------------------------------------------------------------- RaftNode
\* The tails of RaftNode.Prepare / Commit / Rollback: the error the worker
\* call returns for the response it read
\* (if resp.ErrCode > 0 { err = fmt.Errorf(resp.ErrString) }).

\* A RaftNode.Prepare that drops the response's ErrCode.
RaftNode_Prepare_IgnoresErrCode(rsp) == NoErr

RaftNode_Prepare(rsp) ==
    IF rsp.ErrCode > 0 THEN Err(rsp.ErrString, rsp.tx, "Prepare") ELSE NoErr

\* A RaftNode.Commit that drops the response's ErrCode.
RaftNode_Commit_IgnoresErrCode(rsp) == NoErr

\* A RaftNode.Commit that takes only ErrCode 1 for a failure.
RaftNode_Commit_OnlyErrCode1(rsp) ==
    IF rsp.ErrCode = 1 THEN Err(rsp.ErrString, rsp.tx, "Commit") ELSE NoErr

RaftNode_Commit(rsp) ==
    IF rsp.ErrCode > 0 THEN Err(rsp.ErrString, rsp.tx, "Commit") ELSE NoErr

RaftNode_Rollback(rsp) ==
    IF rsp.ErrCode > 0 THEN Err(rsp.ErrString, rsp.tx, "Rollback") ELSE NoErr

RespErr(k, rsp) ==
    CASE k = "Prepare" -> RaftNode_Prepare(rsp)
      [] k = "Commit" -> RaftNode_Commit(rsp)
      [] k = "Rollback" -> RaftNode_Rollback(rsp)

\* ------------------------------------------------------------------- hooks
\* The hooks of the test coordinator: each returns nil or its own error,
\* as the flag it reads (errorBeforePrepare, ...) says.
\* A beforePrepare hook that returns the error of another hook.
beforePrepare_WrongError(errorBeforePrepare) ==
    IF errorBeforePrepare THEN beforeCommitError ELSE NoErr

\* A beforeCommit hook that returns the error of another hook.
beforeCommit_WrongError(errorBeforeCommit) ==
    IF errorBeforeCommit THEN beforeRollbackError ELSE NoErr

beforePrepare(errorBeforePrepare) ==
    IF errorBeforePrepare THEN beforePrepareError ELSE NoErr
beforeCommit(errorBeforeCommit) ==
    IF errorBeforeCommit THEN beforeCommitError ELSE NoErr
beforeRollback(errorBeforeRollback) ==
    IF errorBeforeRollback THEN beforeRollbackError ELSE NoErr

\* testNodeReset: every node back to Initailized, txid kept.
testNodeReset(n) == [w \in Workers |-> [n[w] EXCEPT !.state = Initailized]]

\* ------------------------------------------------------------- coordinator
Dispatched(k) == {w \in Workers : call[w][k] # "none"}
Outstanding(k) == {w \in Workers : call[w][k] \in {"sent", "dead", "handled"}}

\* A join that waits for every response and never looks at the context.
JoinReady_NoTimeout(k) == Dispatched(k) = Workers /\ Outstanding(k) = {}

\* All workers were sent the call, and all have answered or the context fired.
JoinReady(k) == Dispatched(k) = Workers /\ (Outstanding(k) = {} \/ ctxDone)

\* The errors of phase k as the coordinator records them at the join: a call
\* still outstanding when the context has fired fails with the cancellation cause.
Collected(k) ==
    [w \in Workers |-> IF w \in Outstanding(k) THEN ErrCtx ELSE errs[k][w]]

\* The first error of a phase, in the order of the workers list.
FirstErr(es) ==
    IF \A w \in Workers : es[w] = NoErr THEN NoErr
    ELSE es[CHOOSE w \in Workers :
                /\ es[w] # NoErr
                /\ \A v \in Workers : es[v] # NoErr => w <= v]

\* Worker calls of kind k go out to every worker; a call made once the context
\* has fired is dead on arrival (conn.SetDeadline with a deadline in the past).
Dispatch(c, k) ==
    [w \in Workers |-> [c[w] EXCEPT ![k] = IF ctxDone THEN "dead" ELSE "sent"]]

\* The calls of kind k are over for the coordinator.
Closed(c, k) == [w \in Workers |-> [c[w] EXCEPT ![k] = "done"]]

\* The failure the prepare phase records: the first error among the responses,
\* or the cancellation cause when the context fired.
PrepareFailure(es) ==
    IF FirstErr(es) # NoErr THEN FirstErr(es)
    ELSE IF ctxDone THEN ErrCtx ELSE NoErr

\* The failure the commit phase records.
CommitFailure(es) == FirstErr(es)

\* A Put that surfaces the beforeRollback hook's error when there is one.
RollbackResult_HookFirst(recorded, hookErr, rollbackErrs) ==
    IF hookErr # NoErr THEN hookErr ELSE recorded

\* What Put returns after the rollback: the recorded failure, never an error
\* of the beforeRollback hook or of a Rollback call.
RollbackResult(recorded, hookErr, rollbackErrs) == recorded

\* rollback: the hook (its error is not surfaced), then Rollback to everyone.
StartRollback(c, e, errorBeforeRollback) ==
    /\ returnErr' = e
    /\ phase' = "RollingBack"
    /\ hooked' = [hooked EXCEPT !["Rollback"] = beforeRollback(errorBeforeRollback)]
    /\ call' = Dispatch(c, "Rollback")

\* ------------------------------------------------- storage: data and start
\* TxID{ConnectionID, SeqNo, Timestamp}
TxID(c, q, t) == [ConnectionID |-> c, SeqNo |-> q, Timestamp |-> t]
\* the zero value s.id holds in a Storage that New has just built
ZeroTxID == TxID(0, 0, 0)
\* The TxIDs of the batches presented: one, and one differing from it in each
\* single component.
TxIDs == {TxID(1, 1, 1), TxID(2, 1, 1), TxID(1, 2, 1), TxID(1, 1, 2)}

\* A statement of a batch: its text, and the TxID of the batch that carries it.
Stmt(t, q) == [tx |-> t, sql |-> q]
NoStmt == Stmt(ZeroTxID, "")
Stmts(t) == {Stmt(t, q) : q \in {"a", "b"}}
\* the statement lists of a batch: Queries []string, of any length
QueryLists(t) == UNION {[1..n -> Stmts(t)] : n \in 0..MaxLen}

\* &ExecLog{ConnectionID, SeqNo, Timestamp, Queries}
ExecLog(t, qs) ==
    [type |-> "ExecLog", ConnectionID |-> t.ConnectionID, SeqNo |-> t.SeqNo,
     Timestamp |-> t.Timestamp, Queries |-> qs]
ExecLogs == UNION {{ExecLog(t, qs) : qs \in QueryLists(t)} : t \in TxIDs}
\* a WriteBatch that is not an *ExecLog
OtherBatch ==
    [type |-> "other", ConnectionID |-> 0, SeqNo |-> 0, Timestamp |-> 0,
     Queries |-> <<>>]
WriteBatches == ExecLogs \cup {OtherBatch}
\* Commit and Rollback read the TxID of the batch and never its Queries: the
\* batches presented to them are taken without statements.
Presented == {b \in WriteBatches : b.Queries = <<>>}

\* s.tx = nil; an open transaction is its position in dbtx
NilTx == 0

\* errors of the Storage methods: the text, and the values formatted into it
StorageErr(e, t, q) == [e |-> e, id |-> t, stmt |-> q]
Success == StorageErr("nil", ZeroTxID, NoStmt)
ErrUnexpectedType == StorageErr("unexpected WriteBatch type", ZeroTxID, NoStmt)
ErrInconsistentState(t) ==
    StorageErr("twopc: inconsistent state, currently in tx", t, NoStmt)
ErrTxNotPrepared == StorageErr("twopc: tx not prepared", ZeroTxID, NoStmt)
\* the error of s.db.BeginTx
ErrBeginTx == StorageErr("begin tx error", ZeroTxID, NoStmt)
\* the error of s.tx.ExecContext for statement q
ErrExec(q) == StorageErr("exec error", ZeroTxID, q)

\* the record of a returned call: the method, the TxID and (for Prepare) the
\* list read from the batch, the ExecContext calls set to fail, the result
Call(op, t, qs, fails, e) ==
    [op |-> op, id |-> t, queries |-> qs, fails |-> fails, err |-> e]

\* New: &Storage{dsn: dsn, db: db}
StorageInit ==
    /\ s = [tx |-> NilTx, id |-> ZeroTxID, queries |-> <<>>]
    /\ dbtx = <<>>
    /\ last = Call("none", ZeroTxID, <<>>, {}, Success)
    /\ ncalls = 0

\* -------------------------------------------------- openDB: data and start
Callers == 1..NumCallers
\* A DSN as NewDSN returns it: the file name and the parameters openDB reads
\* (the DSNs presented are ones that parse).
DSN(fn, mode, cache) == [filename |-> fn, mode |-> mode, cache |-> cache]
NoDSN == DSN("", "", "")
DSNs == {DSN("a.db", "", ""), DSN("b.db", "memory", "shared"),
         DSN(":memory:", "", ""), DSN("a.db", "memory", "")}
Filenames == {d.filename : d \in DSNs}
\* no *sql.DB; a handle is the number of the sql.Open call that made it
NoDB == 0
ErrOpen == "sql.Open error"

\* index = struct{ sync.Mutex; db map[string]*sql.DB }{db: make(...)}
OpenDBInit ==
    /\ index = [fn \in Filenames |-> NoDB]
    /\ caller = [t \in Callers |-> [pc |-> "idle", dsn |-> NoDSN, db |-> NoDB, err |-> "nil"]]
    /\ handles = 0

\* ---------------------------------------------- handler calls: data and start
\* the TxIDs of the requests handed to the handlers
ReqTxIDs == 0..MaxPuts
\* A handler call: the server, the handler, the request's TxID, the node as
\* the handler found it and the ErrCode it wrote.
RPCCall(w, k, t, r, c) == [w |-> w, kind |-> k, tx |-> t, found |-> r, ErrCode |-> c]
NoRPC == RPCCall(0, "none", 0, [txid |-> 0, state |-> Initailized], 0)
RPCInit == rpc = NoRPC

\* ---------------------------------------------- block index: data and start
\* header.BlockHash of the headers presented
Hashes == {"h1", "h2"}
\* a nil *blockNode; a block node is its position in blocks
NilNode == 0
\* &blockNode{hash, parent, height}
BlockNode(h, p, height) == [hash |-> h, parent |-> p, height |-> height]
\* An AddBlock call: the node, and whether its parent was the node the index
\* held for the parent's hash when the call was made.
Added(n, present) == [node |-> n, parentPresent |-> present]
\* newBlockIndex: index: make(map[hash.Hash]*blockNode)
ChainInit ==
    /\ blocks = <<>>
    /\ bindex = [h \in Hashes |-> NilNode]
    /\ added = Added(NilNode, FALSE)

\* ------------------------------------------ public-key store: data and start
\* the node IDs of the test: BPNodeID, "node1", "node2"
NodeIDs == {"BP", "node1", "node2"}
BPNodeID == "BP"
\* the public keys of the nodes presented
PubKeys == {"k1", "k2"}
NoKey == "nil"
\* &proto.Node{ID, PublicKey}
Node(id, k) == [ID |-> id, PublicKey |-> k]
NilProtoNode == Node("", NoKey)
Nodes == {Node(id, k) : id \in NodeIDs, k \in PubKeys}
BPNode == Node(BPNodeID, "k1")
ErrKeyNotFound == "ErrKeyNotFound"
ErrBucketNotInitialized == "ErrBucketNotInitialized"
ErrNilNode == "ErrNilNode"
\* A returned call: the operation, the ID it was given, the error, the node
\* record and the ID list it returned.
PKCall(op, id, er, n, ids) == [op |-> op, id |-> id, err |-> er, node |-> n, ids |-> ids]
\* The state TestDB starts from: InitPublicKeyStore(dbFile, BPNode) on a fresh
\* file has opened the bucket and inserted the seed node.
StoreInit ==
    /\ pks = [bucket |-> "open", records |-> <<BPNode>>]
    /\ pkret = PKCall("InitPublicKeyStore", BPNodeID, "nil", NilProtoNode, <<>>)
    /\ live = {BPNodeID}

\* ------------------------------------------- mock transport: data and start
\* the nodes requests are sent to: callers send to j, and the receiver at j
\* sends to k when it pipes a request (the piped test's i -> j -> k)
Targets == {"j", "k"}
Piped == [j |-> "k", k |-> "nil"]
\* the goroutines calling Request, and the request IDs getReqID can hand out
Goroutines == 1..MaxRequests
RequestIDs == 1..MaxRequests
NoRequest == 0
\* &MockResponse{ResponseID, Payload, Error}; late is not a field of the
\* struct: it records that the response was taken from waitQueue after the
\* caller of its request had given up.
MockResponse(id, v, er) == [ResponseID |-> id, Payload |-> v, Error |-> er, late |-> FALSE]
\* a nil payload; the payload made from a request is the request's ID
NoPayload == 0
NoResponse == MockResponse(NoRequest, NoPayload, "nil")
\* What a receiver passes to SendResponse: a payload made from the request
\* ("happy e test1") with no error, or an error. The request ID stands for
\* the payload made from the request.
Answers(id) == {<<id, "nil">>, <<NoPayload, "failed">>}
\* ctx.Err() of a context that is done
CtxErr == "context deadline exceeded"
\* &MockTransport{queue, waitQueue, giveUp}
NewTransport == [queue |-> <<>>, waitQueue |-> <<>>, giveUp |-> {}]
\* a goroutine that has not called Request yet
IdleRequest ==
    [pc |-> "idle", RequestID |-> NoRequest, transport |-> "nil",
     res |-> NoResponse, ret |-> NoResponse]
\* a handle nobody has received yet
NoHandle == [state |-> "none", answers |-> 0, sent |-> {}, after |-> NoRequest]
TransportInit ==
    /\ reqSeq = 0
    /\ transports = [n \in Targets |-> NewTransport]
    /\ requests = [g \in Goroutines |-> IdleRequest]
    /\ served = [id \in RequestIDs |-> NoHandle]
    /\ abandoned = {}
    /\ fatal = FALSE

Init ==
    /\ policy = AllGood
    /\ node = [w \in Workers |-> [txid |-> 0, state |-> Initailized]]
    /\ phase = "Idle"
    /\ wb = 0
    /\ call = NoCalls
    /\ resp = NoResps
    /\ errs = NoErrs
    /\ hooked = NoHooks
    /\ ctxDone = FALSE
    /\ returnErr = NoErr
    /\ ret = NotRun
    /\ nput = 0
    /\ StorageInit
    /\ OpenDBInit
    /\ RPCInit
    /\ ChainInit
    /\ StoreInit
    /\ TransportInit

\* The test driver: reset the nodes, choose the policy, and call c.Put with a
\* batch whose TxID is the number of the call; Put derives its context.
TestPut(pol) ==
    /\ phase = "Terminal" \/ (phase = "Idle" /\ ret = NotRun)
    /\ nput < MaxPuts
    /\ policy' = pol
    /\ node' = testNodeReset(node)
    /\ phase' = "Idle"
    /\ wb' = nput
    /\ call' = NoCalls
    /\ resp' = NoResps
    /\ errs' = NoErrs
    /\ hooked' = NoHooks
    /\ ctxDone' = FALSE
    /\ returnErr' = NoErr
    /\ ret' = Running
    /\ nput' = nput + 1
    /\ UNCHANGED notTwoPC

\* Put, steps 2-3: the beforePrepare hook, then Prepare to all workers.
PutBegin(errorBeforePrepare) ==
    /\ phase = "Idle"
    /\ ret = Running
    /\ LET h == beforePrepare(errorBeforePrepare)
       IN  /\ hooked' = [hooked EXCEPT !["Prepare"] = h]
           /\ IF h # NoErr
              THEN /\ phase' = "Terminal"
                   /\ ret' = h
                   /\ UNCHANGED call
              ELSE /\ phase' = "Preparing"
                   /\ call' = Dispatch(call, "Prepare")
                   /\ UNCHANGED ret
    /\ UNCHANGED <<policy, node, wb, resp, errs, ctxDone, returnErr, nput>>
    /\ UNCHANGED notTwoPC

\* A Put that returns the prepare failure at once, without any rollback.
PrepareJoin_NoRollback(errorBeforeRollback) ==
    /\ phase = "Preparing"
    /\ JoinReady("Prepare")
    /\ LET es == Collected("Prepare")
           e == PrepareFailure(es)
       IN  /\ errs' = [errs EXCEPT !["Prepare"] = es]
           /\ call' = Closed(call, "Prepare")
           /\ IF e # NoErr
              THEN /\ phase' = "Terminal"
                   /\ returnErr' = e
                   /\ ret' = e
              ELSE /\ phase' = "Committing"
                   /\ UNCHANGED <<returnErr, ret>>
    /\ UNCHANGED <<policy, node, wb, resp, hooked, ctxDone, nput>>
    /\ UNCHANGED notTwoPC

\* Put, steps 3-4: the join of the prepare phase.
PrepareJoin(errorBeforeRollback) ==
    /\ phase = "Preparing"
    /\ JoinReady("Prepare")
    /\ LET es == Collected("Prepare")
           e == PrepareFailure(es)
       IN  /\ errs' = [errs EXCEPT !["Prepare"] = es]
           /\ IF e # NoErr
              THEN StartRollback(Closed(call, "Prepare"), e, errorBeforeRollback)
              ELSE /\ phase' = "Committing"
                   /\ call' = Closed(call, "Prepare")
                   /\ UNCHANGED <<returnErr, hooked>>
    /\ UNCHANGED <<policy, node, wb, resp, ctxDone, ret, nput>>
    /\ UNCHANGED notTwoPC

\* Put, steps 5-6: the beforeCommit hook, then Commit to all workers.
CommitBegin(errorBeforeCommit, errorBeforeRollback) ==
    /\ phase = "Committing"
    /\ Dispatched("Commit") = {}
    /\ LET h == beforeCommit(errorBeforeCommit)
       IN  IF h # NoErr
           THEN /\ returnErr' = h
                /\ phase' = "RollingBack"
                /\ hooked' = [hooked EXCEPT
                                 !["Commit"] = h,
                                 !["Rollback"] = beforeRollback(errorBeforeRollback)]
                /\ call' = Dispatch(call, "Rollback")
           ELSE /\ hooked' = [hooked EXCEPT !["Commit"] = h]
                /\ call' = Dispatch(call, "Commit")
                /\ UNCHANGED <<returnErr, phase>>
    /\ UNCHANGED <<policy, node, wb, resp, errs, ctxDone, ret, nput>>
    /\ UNCHANGED notTwoPC

\* Put, steps 6-7: the join of the commit phase.
CommitJoin(errorBeforeRollback) ==
    /\ phase = "Committing"
    /\ JoinReady("Commit")
    /\ LET es == Collected("Commit")
           e == CommitFailure(es)
       IN  /\ errs' = [errs EXCEPT !["Commit"] = es]
           /\ IF e # NoErr
              THEN /\ StartRollback(Closed(call, "Commit"), e, errorBeforeRollback)
                   /\ UNCHANGED ret
              ELSE /\ phase' = "Terminal"
                   /\ ret' = NoErr
                   /\ call' = Closed(call, "Commit")
                   /\ UNCHANGED <<returnErr, hooked>>
    /\ UNCHANGED <<policy, node, wb, resp, ctxDone, nput>>
    /\ UNCHANGED notTwoPC

\* Put, step 4: the join of the rollback; Put returns the recorded failure.
RollbackJoin ==
    /\ phase = "RollingBack"
    /\ JoinReady("Rollback")
    /\ LET es == Collected("Rollback")
       IN  /\ errs' = [errs EXCEPT !["Rollback"] = es]
           /\ ret' = RollbackResult(returnErr, hooked["Rollback"], es)
    /\ phase' = "Terminal"
    /\ call' = Closed(call, "Rollback")
    /\ UNCHANGED <<policy, node, wb, resp, hooked, ctxDone, returnErr, nput>>
    /\ UNCHANGED notTwoPC

\* The timer of context.WithTimeout fires.
DeadlineFire ==
    /\ ret = Running
    /\ ~ctxDone
    /\ ctxDone' = TRUE
    /\ UNCHANGED <<policy, node, phase, wb, call, resp, errs, hooked, returnErr,
                   ret, nput>>
    /\ UNCHANGED notTwoPC

\* ------------------------------------------------------------ worker calls
\* etls.Dial or rpc.InitClientConn fails: the call returns without the server
\* having seen the request.
DialFail(w, k) ==
    /\ call[w][k] \in {"sent", "dead"}
    /\ call' = [call EXCEPT ![w][k] = "done"]
    /\ errs' = [errs EXCEPT ![k][w] = ErrDial(k)]
    /\ UNCHANGED <<policy, node, phase, wb, resp, hooked, ctxDone, returnErr,
                   ret, nput>>
    /\ UNCHANGED notTwoPC

\* The server runs the handler under r.mu and writes the response.
Serve(w, k) ==
    /\ call[w][k] = "sent"
    /\ LET h == Handler(k, node[w], policy, wb)
       IN  /\ node' = [node EXCEPT ![w] = h.node]
           /\ resp' = [resp EXCEPT ![w][k] = h.resp]
    /\ call' = [call EXCEPT ![w][k] = "handled"]
    /\ UNCHANGED <<policy, phase, wb, errs, hooked, ctxDone, returnErr, ret, nput>>
    /\ UNCHANGED notTwoPC

\* client.Call returns the response; the worker call returns its error.
Reply(w, k) ==
    /\ call[w][k] = "handled"
    /\ call' = [call EXCEPT ![w][k] = "done"]
    /\ errs' = [errs EXCEPT ![k][w] = RespErr(k, resp[w][k])]
    /\ UNCHANGED <<policy, node, phase, wb, resp, hooked, ctxDone, returnErr,
                   ret, nput>>
    /\ UNCHANGED notTwoPC

\* client.Call fails on the connection deadline; a request the server has not
\* handled by then is dropped.
Timeout(w, k) ==
    /\ ctxDone
    /\ call[w][k] \in {"sent", "dead", "handled"}
    /\ call' = [call EXCEPT ![w][k] = "done"]
    /\ errs' = [errs EXCEPT ![k][w] = ErrIOTimeout(k)]
    /\ UNCHANGED <<policy, node, phase, wb, resp, hooked, ctxDone, returnErr,
                   ret, nput>>
    /\ UNCHANGED notTwoPC

Coordinator ==
    \/ \E bp \in BOOLEAN : PutBegin(bp)
    \/ \E br \in BOOLEAN : PrepareJoin(br)
    \/ \E bc, br \in BOOLEAN : CommitBegin(bc, br)
    \/ \E br \in BOOLEAN : CommitJoin(br)
    \/ RollbackJoin

Next ==
    \/ \E pol \in Policies : TestPut(pol)
    \/ Coordinator
    \/ DeadlineFire
    \/ \E w \in Workers, k \in Kinds : DialFail(w, k)
    \/ \E w \in Workers, k \in Kinds : Serve(w, k)
    \/ \E w \in Workers, k \in Kinds : Reply(w, k)
    \/ \E w \in Workers, k \in Kinds : Timeout(w, k)

Spec == Init /\ [][Next]_vars

\* The coordinator's own steps and the timer are scheduled fairly; the workers
\* are given no fairness (a worker may never answer).
FairSpec == Spec /\ WF_vars(Coordinator) /\ WF_vars(DeadlineFire)

\* ================================================================ storage
\* equalTxID: component by component
equalTxID_IgnoresTimestamp(x, y) ==
    x.ConnectionID = y.ConnectionID /\ x.SeqNo = y.SeqNo
equalTxID_IgnoresSeqNo(x, y) ==
    x.ConnectionID = y.ConnectionID /\ x.Timestamp = y.Timestamp
equalTxID_IgnoresConnectionID(x, y) ==
    x.SeqNo = y.SeqNo /\ x.Timestamp = y.Timestamp
equalTxID(x, y) ==
    x.ConnectionID = y.ConnectionID /\ x.SeqNo = y.SeqNo /\ x.Timestamp = y.Timestamp

\* &TxID{el.ConnectionID, el.SeqNo, el.Timestamp}
IdOf(el) == TxID(el.ConnectionID, el.SeqNo, el.Timestamp)

\* s.queries = el.Queries
Buffered_Appends(st, el) == [st EXCEPT !.queries = @ \o el.Queries]
Buffered(st, el) == [st EXCEPT !.queries = el.Queries]

\* s.tx = nil; s.queries = nil
Cleared_KeepsQueries(st) == [st EXCEPT !.tx = NilTx]
Cleared(st) == [st EXCEPT !.tx = NilTx, !.queries = <<>>]

\* The first i for which s.tx.ExecContext(ctx, queries[i]) returns an error,
\* given the set of positions whose execution fails; 0 if none does.
FirstFailure(queries, fails) ==
    IF \E i \in 1..Len(queries) : i \in fails
    THEN CHOOSE i \in 1..Len(queries) :
             i \in fails /\ \A j \in 1..(i - 1) : j \notin fails
    ELSE 0

\* The statements the loop of Commit hands to s.tx.ExecContext: the loop
\* returns at the first error.
Executed_RunsAll(queries, fails) == queries
Executed(queries, fails) ==
    IF FirstFailure(queries, fails) = 0
    THEN queries
    ELSE SubSeq(queries, 1, FirstFailure(queries, fails))

\* s.tx.Rollback()
TxRollback(txs, h) == [txs EXCEPT ![h].status = "rolled back"]

\* a method returns: s.Unlock() and the result
Return(c) ==
    /\ last' = c
    /\ ncalls' = ncalls + 1

\* Storage.Prepare; beginOK: s.db.BeginTx succeeds.  The method runs under
\* s.Lock() / defer s.Unlock(), so concurrent calls execute one at a time.
Storage_Prepare(b, beginOK) ==
    /\ ncalls < MaxCalls
    /\ IF b.type # "ExecLog"
       THEN /\ Return(Call("Prepare", ZeroTxID, <<>>, {}, ErrUnexpectedType))
            /\ UNCHANGED <<s, dbtx>>
       ELSE IF s.tx # NilTx
       THEN IF equalTxID(s.id, IdOf(b))
            THEN /\ s' = Buffered(s, b)
                 /\ Return(Call("Prepare", IdOf(b), b.Queries, {}, Success))
                 /\ UNCHANGED dbtx
            ELSE /\ Return(Call("Prepare", IdOf(b), b.Queries, {},
                                ErrInconsistentState(s.id)))
                 /\ UNCHANGED <<s, dbtx>>
       ELSE IF ~beginOK
       THEN /\ Return(Call("Prepare", IdOf(b), b.Queries, {}, ErrBeginTx))
            /\ UNCHANGED <<s, dbtx>>
       ELSE /\ dbtx' = Append(dbtx, [opener |-> IdOf(b), stmts |-> <<>>,
                                     status |-> "open"])
            /\ s' = Buffered([s EXCEPT !.tx = Len(dbtx) + 1, !.id = IdOf(b)], b)
            /\ Return(Call("Prepare", IdOf(b), b.Queries, {}, Success))
    /\ UNCHANGED notStorage

\* Storage.Commit; fails: the positions of s.queries whose ExecContext fails.
Storage_Commit(b, fails) ==
    /\ ncalls < MaxCalls
    /\ fails \subseteq 1..Len(s.queries)
    /\ IF b.type # "ExecLog"
       THEN /\ Return(Call("Commit", ZeroTxID, <<>>, {}, ErrUnexpectedType))
            /\ UNCHANGED <<s, dbtx>>
       ELSE IF s.tx # NilTx
       THEN IF equalTxID(s.id, IdOf(b))
            THEN LET f == FirstFailure(s.queries, fails)
                     failing == fails \cap (1..Len(s.queries))
                 IN  /\ dbtx' = IF f = 0
                                THEN [dbtx EXCEPT ![s.tx].stmts =
                                          @ \o Executed(s.queries, fails)]
                                ELSE TxRollback(
                                         [dbtx EXCEPT ![s.tx].stmts =
                                              @ \o Executed(s.queries, fails)],
                                         s.tx)
                     /\ s' = IF f = 0 THEN s ELSE Cleared(s)
                     /\ Return(Call("Commit", IdOf(b), <<>>, failing,
                                    IF f = 0 THEN Success ELSE ErrExec(s.queries[f])))
            ELSE /\ Return(Call("Commit", IdOf(b), <<>>, {},
                                ErrInconsistentState(s.id)))
                 /\ UNCHANGED <<s, dbtx>>
       ELSE /\ Return(Call("Commit", IdOf(b), <<>>, {}, ErrTxNotPrepared))
            /\ UNCHANGED <<s, dbtx>>
    /\ UNCHANGED notStorage

\* Storage.Rollback: the TxID is compared with s.id before s.tx is looked at.
Storage_Rollback(b) ==
    /\ ncalls < MaxCalls
    /\ IF b.type # "ExecLog"
       THEN /\ Return(Call("Rollback", ZeroTxID, <<>>, {}, ErrUnexpectedType))
            /\ UNCHANGED <<s, dbtx>>
       ELSE IF ~equalTxID(s.id, IdOf(b))
       THEN /\ Return(Call("Rollback", IdOf(b), <<>>, {},
                           ErrInconsistentState(s.id)))
            /\ UNCHANGED <<s, dbtx>>
       ELSE /\ IF s.tx # NilTx
               THEN /\ dbtx' = TxRollback(dbtx, s.tx)
                    /\ s' = Cleared(s)
               ELSE UNCHANGED <<s, dbtx>>
            /\ Return(Call("Rollback", IdOf(b), <<>>, {}, Success))
    /\ UNCHANGED notStorage

\* Any number of callers, each presenting the batch of its own TxID.
StorageNext ==
    \/ \E b \in WriteBatches, beginOK \in BOOLEAN : Storage_Prepare(b, beginOK)
    \/ \E b \in Presented, fails \in SUBSET (1..MaxLen) : Storage_Commit(b, fails)
    \/ \E b \in Presented : Storage_Rollback(b)

StorageSpec == Init /\ [][StorageNext]_vars

\* ================================================================= openDB
\* (fn == ":memory:" || mode == "memory") && cache != "shared"
Private(d) ==
    (d.filename = ":memory:" \/ d.mode = "memory") /\ d.cache # "shared"

\* Thread t calls New(dsn): openDB parses the DSN and either opens a private
\* database (openOK: sql.Open succeeds) or goes on to the cache.
New(t, d, openOK) ==
    /\ caller[t].pc = "idle"
    /\ IF Private(d)
       THEN IF openOK
            THEN /\ handles' = handles + 1
                 /\ caller' = [caller EXCEPT ![t] =
                        [pc |-> "done", dsn |-> d, db |-> handles + 1, err |-> "nil"]]
            ELSE /\ caller' = [caller EXCEPT ![t] =
                        [pc |-> "done", dsn |-> d, db |-> NoDB, err |-> ErrOpen]]
                 /\ UNCHANGED handles
       ELSE /\ caller' = [caller EXCEPT ![t].pc = "lookup", ![t].dsn = d]
            /\ UNCHANGED handles
    /\ UNCHANGED index
    /\ UNCHANGED notOpenDB

\* index.Lock(); db, ok := index.db[d.filename]; index.Unlock()
Lookup(t) ==
    /\ caller[t].pc = "lookup"
    /\ LET db == index[caller[t].dsn.filename]
       IN  caller' = [caller EXCEPT ![t].db = db,
                                    ![t].pc = IF db # NoDB THEN "done" ELSE "open"]
    /\ UNCHANGED <<index, handles>>
    /\ UNCHANGED notOpenDB

\* if !ok { db, err = sql.Open("sqlite3", fdsn) ... }
Open(t, openOK) ==
    /\ caller[t].pc = "open"
    /\ IF openOK
       THEN /\ handles' = handles + 1
            /\ caller' = [caller EXCEPT ![t].db = handles + 1, ![t].pc = "insert"]
       ELSE /\ caller' = [caller EXCEPT ![t].err = ErrOpen, ![t].pc = "done"]
            /\ UNCHANGED handles
    /\ UNCHANGED index
    /\ UNCHANGED notOpenDB

\* index.Lock(); index.db[d.filename] = db; index.Unlock(); return
Insert(t) ==
    /\ caller[t].pc = "insert"
    /\ index' = [index EXCEPT ![caller[t].dsn.filename] = caller[t].db]
    /\ caller' = [caller EXCEPT ![t].pc = "done"]
    /\ UNCHANGED handles
    /\ UNCHANGED notOpenDB

OpenDBNext ==
    \/ \E t \in Callers, d \in DSNs, openOK \in BOOLEAN : New(t, d, openOK)
    \/ \E t \in Callers : Lookup(t)
    \/ \E t \in Callers, openOK \in BOOLEAN : Open(t, openOK)
    \/ \E t \in Callers : Insert(t)

OpenDBSpec == Init /\ [][OpenDBNext]_vars

\* ========================================================== handler calls
\* The RPC handlers of one RaftNodeRPCServer called in any order, with any
\* request TxID, under any policy (each handler runs under r.mu).
SetPolicy(pol) ==
    /\ policy' = pol
    /\ UNCHANGED <<node, rpc>>
    /\ UNCHANGED notRPC

HandlerCall(w, k, t) ==
    /\ LET h == Handler(k, node[w], policy, t)
       IN  /\ node' = [node EXCEPT ![w] = h.node]
           /\ rpc' = RPCCall(w, k, t, node[w], h.resp.ErrCode)
    /\ UNCHANGED policy
    /\ UNCHANGED notRPC

RPCNext ==
    \/ \E pol \in Policies : SetPolicy(pol)
    \/ \E w \in Workers, k \in Kinds, t \in ReqTxIDs : HandlerCall(w, k, t)

RPCSpec == Init /\ [][RPCNext]_vars

\* ============================================================ block index
\* parent.height + 1 on int32
Int32Succ(h) == IF h = 2147483647 THEN (-2147483647) - 1 ELSE h + 1

\* newBlockNode(header, parent) as a value
newBlockNode(h, p) ==
    IF p # NilNode
    THEN BlockNode(h, p, Int32Succ(blocks[p].height))
    ELSE BlockNode(h, NilNode, 0)

\* bn.initBlockNode(head, parent) on a blockNode just allocated
initBlockNode(h, p) ==
    IF p # NilNode
    THEN BlockNode(h, p, Int32Succ(blocks[p].height))
    ELSE BlockNode(h, NilNode, 0)

\* the loop of ancestor: for ancestor != nil && ancestor.height != height
RECURSIVE Walk(_, _)
Walk(n, height) ==
    IF n = NilNode \/ blocks[n].height = height
    THEN n
    ELSE Walk(blocks[n].parent, height)

\* bn.ancestor(height)
ancestor_OneStep(bn, height) ==
    IF height < 0 \/ height > blocks[bn].height
    THEN NilNode
    ELSE IF blocks[bn].height = height THEN bn ELSE blocks[bn].parent
ancestor(bn, height) ==
    IF height < 0 \/ height > blocks[bn].height
    THEN NilNode
    ELSE Walk(bn, height)

\* A block node is built by either constructor on a parent built before it,
\* or on none (genesis).
BuildBlockNode(h, p) ==
    /\ Len(blocks) < MaxBlocks
    /\ p <= Len(blocks)
    /\ \E bn \in {newBlockNode(h, p), initBlockNode(h, p)} :
           blocks' = Append(blocks, bn)
    /\ UNCHANGED <<bindex, added>>
    /\ UNCHANGED notChain

\* bi.AddBlock(newBlock): bi.index[newBlock.hash] = newBlock, under bi.mu
AddBlock(n) ==
    /\ n <= Len(blocks)
    /\ bindex' = [bindex EXCEPT ![blocks[n].hash] = n]
    /\ added' = Added(n, /\ blocks[n].parent # NilNode
                         /\ bindex[blocks[blocks[n].parent].hash] = blocks[n].parent)
    /\ UNCHANGED blocks
    /\ UNCHANGED notChain

ChainNext ==
    \/ \E h \in Hashes, p \in 0..MaxBlocks : BuildBlockNode(h, p)
    \/ \E n \in 1..MaxBlocks : AddBlock(n)

ChainSpec == Init /\ [][ChainNext]_vars

\* ======================================================= public-key store
\* The bucket is a list of records with one record per key, in the order the
\* keys were first put.
Position(records, id) ==
    IF \E i \in 1..Len(records) : records[i].ID = id
    THEN CHOOSE i \in 1..Len(records) : records[i].ID = id
    ELSE 0

\* bucket.Put(key, value): replaces the record of the key or adds one
Put_Appends(records, n) == Append(records, n)
Put(records, n) ==
    IF Position(records, n.ID) = 0
    THEN Append(records, n)
    ELSE [records EXCEPT ![Position(records, n.ID)] = n]

\* bucket.Delete(key): deleting a missing key is not an error
Delete(records, id) == SelectSeq(records, LAMBDA n : n.ID # id)

\* GetNodeInfo / GetPublicKey as a value: the error and the record
GetNodeInfo_IgnoresBucket(store, id) ==
    IF Position(store.records, id) = 0
    THEN [err |-> ErrKeyNotFound, node |-> NilProtoNode]
    ELSE [err |-> "nil", node |-> store.records[Position(store.records, id)]]
GetNodeInfo(store, id) ==
    IF store.bucket = "nil"
    THEN [err |-> ErrBucketNotInitialized, node |-> NilProtoNode]
    ELSE IF Position(store.records, id) = 0
    THEN [err |-> ErrKeyNotFound, node |-> NilProtoNode]
    ELSE [err |-> "nil", node |-> store.records[Position(store.records, id)]]

\* GetAllNodeID as a value: the error and the IDs, one per record
GetAllNodeID(store) ==
    IF store.bucket = "nil"
    THEN [err |-> ErrBucketNotInitialized, ids |-> <<>>]
    ELSE [err |-> "nil",
          ids |-> [i \in 1..Len(store.records) |-> store.records[i].ID]]

\* GetNodeInfo(id) / GetPublicKey(id): read-only lookups
Lookup_Call(op, id) ==
    /\ pkret' = PKCall(op, id, GetNodeInfo(pks, id).err, GetNodeInfo(pks, id).node, <<>>)
    /\ UNCHANGED <<pks, live>>
    /\ UNCHANGED notStore

GetAllNodeID_Call ==
    /\ pkret' = PKCall("GetAllNodeID", "", GetAllNodeID(pks).err, NilProtoNode,
                       GetAllNodeID(pks).ids)
    /\ UNCHANGED <<pks, live>>
    /\ UNCHANGED notStore

\* SetNode(node): nil -> ErrNilNode, otherwise setNode(node)
SetNode(n) ==
    /\ IF n = NilProtoNode
       THEN /\ pkret' = PKCall("SetNode", "", ErrNilNode, NilProtoNode, <<>>)
            /\ UNCHANGED <<pks, live>>
       ELSE IF pks.bucket = "nil"
       THEN /\ pkret' = PKCall("setNode", n.ID, ErrBucketNotInitialized, NilProtoNode, <<>>)
            /\ UNCHANGED <<pks, live>>
       ELSE /\ pks' = [pks EXCEPT !.records = Put(@, n)]
            /\ live' = live \cup {n.ID}
            /\ pkret' = PKCall("setNode", n.ID, "nil", NilProtoNode, <<>>)
    /\ UNCHANGED notStore

DelNode(id) ==
    /\ IF pks.bucket = "nil"
       THEN /\ pkret' = PKCall("DelNode", id, ErrBucketNotInitialized, NilProtoNode, <<>>)
            /\ UNCHANGED <<pks, live>>
       ELSE /\ pks' = [pks EXCEPT !.records = Delete(@, id)]
            /\ live' = live \ {id}
            /\ pkret' = PKCall("DelNode", id, "nil", NilProtoNode, <<>>)
    /\ UNCHANGED notStore

\* removeBucket: the bucket is deleted with its records and pks.bucket unset
removeBucket ==
    /\ pks.bucket = "open"
    /\ pks' = [bucket |-> "nil", records |-> <<>>]
    /\ live' = {}
    /\ pkret' = PKCall("removeBucket", "", "nil", NilProtoNode, <<>>)
    /\ UNCHANGED notStore

\* ResetBucket: the bucket is deleted and created again, empty
ResetBucket ==
    /\ pks' = [bucket |-> "open", records |-> <<>>]
    /\ live' = {}
    /\ pkret' = PKCall("ResetBucket", "", "nil", NilProtoNode, <<>>)
    /\ UNCHANGED notStore

StoreNext ==
    \/ \E op \in {"GetNodeInfo", "GetPublicKey"}, id \in NodeIDs : Lookup_Call(op, id)
    \/ GetAllNodeID_Call
    \/ \E n \in Nodes \cup {NilProtoNode} : SetNode(n)
    \/ \E id \in NodeIDs : DelNode(id)
    \/ removeBucket
    \/ ResetBucket

StoreSpec == Init /\ [][StoreNext]_vars

\* ========================================================= mock transport
\* getReqID: atomic.AddUint64(&m.reqSeq, 1)
getReqID == reqSeq + 1

\* the test of sendRequest on a response taken from waitQueue
Matches_Any(res, r) == TRUE
Matches(res, r) == res.ResponseID = r.RequestID

\* The accesses to the giveUp map are not synchronised. A goroutine stands
\* before a write of the map at "giveup" and "delete" and before a read at
\* "check".
AtMapAccess(g) == requests[g].pc \in {"giveup", "check", "delete"}
AtMapWrite(g) == requests[g].pc \in {"giveup", "delete"}
\* g's next access races with an access of another goroutine to the same map
Racing(g) ==
    \E u \in Goroutines \ {g} :
        /\ requests[u].transport = requests[g].transport
        /\ AtMapAccess(u)
        /\ AtMapWrite(g) \/ AtMapWrite(u)
\* g's next access races with a write of another goroutine to the same map
RacingWrite(g) ==
    \E u \in Goroutines \ {g} :
        /\ requests[u].transport = requests[g].transport
        /\ AtMapWrite(u)

\* A fatal error of the runtime ends the process and all its goroutines.
Fatal ==
    /\ fatal' = TRUE
    /\ reqSeq' = 0
    /\ transports' = [n \in Targets |-> NewTransport]
    /\ requests' = [g \in Goroutines |-> IdleRequest]
    /\ served' = [id \in RequestIDs |-> NoHandle]
    /\ abandoned' = {}

\* Request(ctx, nodeID, ...) up to "m.queue <- r". by is the handle whose
\* receiver makes the call before it answers (the piped test), or NoRequest.
Request(g, nodeID, by) ==
    /\ ~fatal
    /\ requests[g].pc = "idle"
    /\ g = getReqID
    /\ IF by = NoRequest
       THEN nodeID = "j"
       ELSE /\ served[by].state = "held"
            /\ served[by].answers = 0
            /\ served[by].after = NoRequest
            /\ \E u \in Goroutines :
                  /\ requests[u].RequestID = by
                  /\ nodeID = Piped[requests[u].transport]
    /\ reqSeq' = getReqID
    /\ requests' = [requests EXCEPT ![g] =
            [@ EXCEPT !.pc = "select", !.RequestID = getReqID, !.transport = nodeID]]
    /\ transports' = [transports EXCEPT ![nodeID].queue = Append(@, getReqID)]
    /\ served' = IF by = NoRequest THEN served
                 ELSE [served EXCEPT ![by].after = getReqID]
    /\ UNCHANGED <<abandoned, fatal>>
    /\ UNCHANGED notTransport

\* select, case <-r.ctx.Done(): the caller's context has been cancelled or
\* has reached its deadline
SelectDone(g) ==
    /\ ~fatal
    /\ requests[g].pc = "select"
    /\ requests' = [requests EXCEPT ![g].pc = "giveup"]
    /\ UNCHANGED <<reqSeq, transports, served, abandoned, fatal>>
    /\ UNCHANGED notTransport

\* m.giveUp[r.RequestID] = true; return nil, r.ctx.Err(). A write that races
\* with another write of the map may be lost, and one that races with any
\* access may stop the process.
GiveUp(g) ==
    /\ ~fatal
    /\ requests[g].pc = "giveup"
    /\ LET m == requests[g].transport
           id == requests[g].RequestID
           returned == [requests EXCEPT ![g] =
                [@ EXCEPT !.pc = "returned", !.ret = MockResponse(NoRequest, NoPayload, CtxErr)]]
       IN  \/ /\ transports' = [transports EXCEPT ![m].giveUp = @ \cup {id}]
              /\ requests' = returned
              /\ abandoned' = abandoned \cup {id}
              /\ UNCHANGED <<reqSeq, served, fatal>>
           \/ /\ RacingWrite(g)
              /\ requests' = returned
              /\ abandoned' = abandoned \cup {id}
              /\ UNCHANGED <<reqSeq, transports, served, fatal>>
           \/ /\ Racing(g)
              /\ Fatal
    /\ UNCHANGED notTransport

\* select, case res := <-m.waitQueue; a matching response is returned
Take(g) ==
    /\ ~fatal
    /\ requests[g].pc = "select"
    /\ LET m == requests[g].transport
       IN  /\ transports[m].waitQueue # <<>>
           /\ LET res == Head(transports[m].waitQueue)
              IN  /\ transports' = [transports EXCEPT ![m].waitQueue = Tail(@)]
                  /\ requests' = [requests EXCEPT ![g] =
                        IF Matches(res, requests[g])
                        THEN [@ EXCEPT !.pc = "returned",
                                !.ret = [res EXCEPT !.late = res.ResponseID \in abandoned]]
                        ELSE [@ EXCEPT !.pc = "check",
                                !.res = [res EXCEPT !.late = res.ResponseID \in abandoned]]]
    /\ UNCHANGED <<reqSeq, served, abandoned, fatal>>
    /\ UNCHANGED notTransport

\* if !m.giveUp[res.ResponseID]. A read that races with a write of the map
\* may see either value or stop the process.
Check(g) ==
    /\ ~fatal
    /\ requests[g].pc = "check"
    /\ LET m == requests[g].transport
           marked == requests[g].res.ResponseID \in transports[m].giveUp
       IN  \/ /\ requests' = [requests EXCEPT ![g].pc = IF marked THEN "delete" ELSE "requeue"]
              /\ UNCHANGED <<reqSeq, transports, served, abandoned, fatal>>
           \/ /\ Racing(g)
              /\ requests' = [requests EXCEPT ![g].pc = IF marked THEN "requeue" ELSE "delete"]
              /\ UNCHANGED <<reqSeq, transports, served, abandoned, fatal>>
           \/ /\ Racing(g)
              /\ Fatal
    /\ UNCHANGED notTransport

\* m.waitQueue <- res
Requeue(g) ==
    /\ ~fatal
    /\ requests[g].pc = "requeue"
    /\ transports' = [transports EXCEPT ![requests[g].transport].waitQueue =
            Append(@, [requests[g].res EXCEPT !.late = FALSE])]
    /\ requests' = [requests EXCEPT ![g] = [@ EXCEPT !.pc = "select", !.res = NoResponse]]
    /\ UNCHANGED <<reqSeq, served, abandoned, fatal>>
    /\ UNCHANGED notTransport

\* delete(m.giveUp, res.ResponseID)
Discard(g) ==
    /\ ~fatal
    /\ requests[g].pc = "delete"
    /\ LET m == requests[g].transport
           id == requests[g].res.ResponseID
           looped == [requests EXCEPT ![g] = [@ EXCEPT !.pc = "select", !.res = NoResponse]]
       IN  \/ /\ transports' = [transports EXCEPT ![m].giveUp = @ \ {id}]
              /\ requests' = looped
              /\ UNCHANGED <<reqSeq, served, abandoned, fatal>>
           \/ /\ RacingWrite(g)
              /\ requests' = looped
              /\ UNCHANGED <<reqSeq, transports, served, abandoned, fatal>>
           \/ /\ Racing(g)
              /\ Fatal
    /\ UNCHANGED notTransport

\* req := <-transport.Process()
Process(nodeID) ==
    /\ ~fatal
    /\ transports[nodeID].queue # <<>>
    /\ transports' = [transports EXCEPT ![nodeID].queue = Tail(@)]
    /\ served' = [served EXCEPT ![Head(transports[nodeID].queue)].state = "held"]
    /\ UNCHANGED <<reqSeq, requests, abandoned, fatal>>
    /\ UNCHANGED notTransport

\* the goroutine whose request has the ID
CallerOf(id) == CHOOSE g \in Goroutines : requests[g].RequestID = id

\* the SendResponse calls made so far
RECURSIVE AnswersUpTo(_)
AnswersUpTo(id) == IF id = 0 THEN 0 ELSE served[id].answers + AnswersUpTo(id - 1)

\* req.SendResponse(v, err). A receiver that piped the request answers with
\* what its own Request returned.
SendResponse(id, a) ==
    /\ ~fatal
    /\ served[id].state = "held"
    /\ AnswersUpTo(MaxRequests) < MaxAnswers
    /\ IF served[id].after = NoRequest
       THEN a \in Answers(id)
       ELSE /\ requests[CallerOf(served[id].after)].pc = "returned"
            /\ a = <<requests[CallerOf(served[id].after)].ret.Payload, "nil">>
    /\ transports' = [transports EXCEPT ![requests[CallerOf(id)].transport].waitQueue =
            Append(@, MockResponse(id, a[1], a[2]))]
    /\ served' = [served EXCEPT ![id] =
            [@ EXCEPT !.answers = @ + 1, !.sent = @ \cup {a}]]
    /\ UNCHANGED <<reqSeq, requests, abandoned, fatal>>
    /\ UNCHANGED notTransport

\* the steps of the goroutine inside sendRequest
Sending(g) ==
    \/ GiveUp(g)
    \/ Take(g)
    \/ Check(g)
    \/ Requeue(g)
    \/ Discard(g)

TransportNext ==
    \/ \E g \in Goroutines, n \in Targets, by \in RequestIDs \cup {NoRequest} : Request(g, n, by)
    \/ \E g \in Goroutines : SelectDone(g)
    \/ \E g \in Goroutines : GiveUp(g)
    \/ \E g \in Goroutines : Take(g)
    \/ \E g \in Goroutines : Check(g)
    \/ \E g \in Goroutines : Requeue(g)
    \/ \E g \in Goroutines : Discard(g)
    \/ \E n \in Targets : Process(n)
    \/ \E id \in RequestIDs, v \in RequestIDs \cup {NoPayload}, er \in {"nil", "failed"} :
            SendResponse(id, <<v, er>>)

TransportSpec == Init /\ [][TransportNext]_vars

\* Every goroutine inside sendRequest keeps being scheduled.
TransportFairSpec == TransportSpec /\ \A g \in Goroutines : WF_vars(Sending(g))

\* ================================================================= claims
\* A worker call of kind k to w failed: it returned an error to the
\* coordinator, or the handler answered with ErrCode > 0.
CallFailed(k, w) ==
    \/ errs[k][w] \notin {NoErr, Pending}
    \/ resp[w][k].ErrCode > 0

\* A worker call of kind k to w succeeded: the handler answered ErrCode 0 and
\* the call returned nil.
CallOK(k) == {w \in Workers : errs[k][w] = NoErr /\ resp[w][k].ErrCode = 0}

Returned == phase = "Terminal"

\* ---- C1
\* C1 as stated: when Put returns, the number of workers whose Commit
\* succeeded equals the number of workers whose Prepare succeeded.
C1_CountsEqualOnEveryReturn ==
    Returned => Cardinality(CallOK("Commit")) = Cardinality(CallOK("Prepare"))

\* C1 (amended): when Put returns OK, the number of workers whose Commit
\* succeeded equals the number whose Prepare succeeded, and both are all the
\* workers; on every outcome no Commit succeeds unless every Prepare succeeded.
C1_AllOrNothing ==
    /\ (Returned /\ ret = NoErr) =>
           /\ Cardinality(CallOK("Commit")) = Cardinality(CallOK("Prepare"))
           /\ CallOK("Prepare") = Workers
    /\ CallOK("Commit") # {} => CallOK("Prepare") = Workers

C1_Witness ==
    /\ Returned
    /\ ret = NoErr
    /\ CallOK("Commit") = Workers
    /\ CallOK("Prepare") = Workers

\* ---- C2
\* C2: no worker is sent Commit until every worker's Prepare response has
\* been received and all are successes; a worker that is sent Commit has
\* finished its own Prepare for the batch's TxID, and until it handles the
\* Commit it is in state Prepared for that TxID.
C2_PrepareBeforeCommit ==
    Dispatched("Commit") # {} =>
        /\ \A v \in Workers :
               /\ call[v]["Prepare"] = "done"
               /\ errs["Prepare"][v] = NoErr
               /\ resp[v]["Prepare"].ErrCode = 0
        /\ \A w \in Workers :
               call[w]["Commit"] = "sent" =>
                   node[w] = [txid |-> wb, state |-> Prepared]

C2_Witness ==
    /\ Dispatched("Commit") = Workers
    /\ \E w \in Workers : call[w]["Commit"] = "handled"
    /\ \E w \in Workers : call[w]["Commit"] = "sent"

\* ---- C3
\* C3: if at least one worker's Prepare returns an error, Put dispatches
\* Rollback to every worker, dispatches Commit to no worker, and returns the
\* first prepare error (in the order of the workers).
C3_PrepareErrorRollsBack ==
    (Returned /\ \E w \in Workers : CallFailed("Prepare", w)) =>
        /\ Dispatched("Rollback") = Workers
        /\ Dispatched("Commit") = {}
        /\ ret = FirstErr(errs["Prepare"])
        /\ ret # NoErr

C3_Witness ==
    /\ Returned
    /\ errs["Prepare"][1] = NoErr
    /\ errs["Prepare"][2] = ErrDial("Prepare")
    /\ ret = ErrDial("Prepare")
    /\ node[1].state = RolledBack
    /\ Dispatched("Rollback") = Workers

\* ---- C4
\* C4: if every Prepare succeeds and at least one worker's Commit returns an
\* error, Put dispatches Rollback to every worker and returns the first commit
\* error; whatever the Rollback calls return, Put never returns a rollback error.
C4_CommitErrorRollsBack ==
    /\ (Returned /\ \E w \in Workers : CallFailed("Commit", w)) =>
           /\ CallOK("Prepare") = Workers
           /\ Dispatched("Rollback") = Workers
           /\ ret = FirstErr(errs["Commit"])
           /\ ret # NoErr
    /\ Returned => ret.from # "Rollback"

C4_Witness ==
    /\ Returned
    /\ CallOK("Prepare") = Workers
    /\ \E w \in Workers : CallFailed("Commit", w)
    /\ \E w \in Workers : errs["Rollback"][w].from = "Rollback"
    /\ ret.from = "Commit"

\* ---- C5
\* C5: if the beforePrepare hook returns an error, Put returns exactly that
\* error (beforePrepareError) and no worker receives a Prepare, Commit or
\* Rollback call, so every worker's state is unchanged.
C5_BeforePrepareErrorStops ==
    /\ [](hooked["Prepare"] \notin {NotRun, NoErr} =>
              /\ Returned
              /\ ret = beforePrepareError
              /\ call = NoCalls
              /\ resp = NoResps)
    /\ [][(hooked["Prepare"] = NotRun /\ hooked'["Prepare"] \notin {NotRun, NoErr})
              => node' = node]_vars
    /\ [][(hooked["Prepare"] \notin {NotRun, NoErr}
              /\ hooked'["Prepare"] \notin {NotRun, NoErr}) => node' = node]_vars

C5_Witness ==
    /\ Returned
    /\ hooked["Prepare"] = beforePrepareError
    /\ ret = beforePrepareError
    /\ \A w \in Workers : node[w].state = Initailized

\* ---- C6
\* C6: if every Prepare succeeds and the beforeCommit hook returns an error,
\* Put dispatches Commit to no worker, dispatches Rollback to every worker and
\* returns exactly the beforeCommit error (beforeCommitError).
C6_BeforeCommitErrorRollsBack ==
    /\ hooked["Commit"] \notin {NotRun, NoErr} =>
           /\ CallOK("Prepare") = Workers
           /\ Dispatched("Commit") = {}
           /\ Dispatched("Rollback") = Workers
           /\ returnErr = beforeCommitError
    /\ (Returned /\ hooked["Commit"] \notin {NotRun, NoErr}) =>
           ret = beforeCommitError

C6_Witness ==
    /\ Returned
    /\ hooked["Commit"] = beforeCommitError
    /\ ret = beforeCommitError
    /\ \A w \in Workers : node[w].state = RolledBack

\* ---- C7
\* The error that triggered the rollback, read off the finished Put: the first
\* prepare error, else the first commit error, else (no call failed) the
\* beforeCommit error or the cancellation cause.
Trigger ==
    IF FirstErr(errs["Prepare"]) # NoErr THEN {FirstErr(errs["Prepare"])}
    ELSE IF Dispatched("Commit") # {} THEN {FirstErr(errs["Commit"])}
    ELSE IF hooked["Commit"] # NotRun THEN {hooked["Commit"]}
    ELSE {ErrCtx}

\* C7: when the beforeRollback hook returns an error, Put still dispatches
\* Rollback to every worker and returns the error that triggered the rollback
\* (the prepare error, the beforeCommit error or the commit error), never the
\* beforeRollback error.
C7_BeforeRollbackErrorIgnored ==
    /\ hooked["Rollback"] \notin {NotRun, NoErr} => Dispatched("Rollback") = Workers
    /\ (Returned /\ hooked["Rollback"] \notin {NotRun, NoErr}) =>
           /\ ret \in Trigger
           /\ ret # NoErr
           /\ ret # hooked["Rollback"]

C7_Witness ==
    /\ Returned
    /\ hooked["Rollback"] = beforeRollbackError
    /\ hooked["Commit"] = beforeCommitError
    /\ ret = beforeCommitError
    /\ Dispatched("Rollback") = Workers

\* ---- C8
\* C8: if no hook errors, every worker's Prepare and Commit succeed and the
\* deadline does not fire, Put returns OK, no Rollback is dispatched, and every
\* worker ends in state Committed for the batch's TxID.
C8_HappyPath ==
    ( /\ Returned
      /\ hooked["Prepare"] = NoErr
      /\ hooked["Commit"] = NoErr
      /\ \A w \in Workers : errs["Prepare"][w] = NoErr /\ errs["Commit"][w] = NoErr
      /\ ~ctxDone ) =>
        /\ ret = NoErr
        /\ Dispatched("Rollback") = {}
        /\ \A w \in Workers : node[w] = [txid |-> wb, state |-> Committed]

C8_Witness ==
    /\ Returned
    /\ \A w \in Workers : node[w].state = Committed
    /\ hooked["Commit"] = NoErr
    /\ \A w \in Workers : errs["Commit"][w] = NoErr
    /\ ~ctxDone
    /\ ret = NoErr

\* ---- C9
\* The coordinator stopped waiting for a Prepare response when the deadline fired.
TimedOutInPrepare == \E w \in Workers : errs["Prepare"][w] = ErrCtx

ListedTransitions ==
    { <<"Idle", "Preparing">>, <<"Preparing", "Committing">>,
      <<"Preparing", "RollingBack">>, <<"Committing", "Terminal">>,
      <<"RollingBack", "Terminal">>, <<"Terminal", "Idle">> }

\* C10 as stated: every Put follows only the listed transitions.
C10_OnlyListedTransitions ==
    [][phase' # phase => <<phase, phase'>> \in ListedTransitions]_vars

\* C10 (amended): every Put follows only the listed transitions and two more,
\* Idle -> Terminal (the beforePrepare hook failed) and Committing ->
\* RollingBack (the beforeCommit hook or a Commit failed); a Put that has
\* entered RollingBack never enters Committing, and no Put dispatches a Commit
\* or a Rollback without passing through Preparing.
C10_PhaseTransitions ==
    /\ [][phase' # phase =>
             <<phase, phase'>> \in ListedTransitions \cup
                 { <<"Idle", "Terminal">>, <<"Committing", "RollingBack">> }]_vars
    /\ [](phase \in {"Committing", "RollingBack"} => Dispatched("Prepare") = Workers)
    /\ [](Dispatched("Commit") \cup Dispatched("Rollback") # {}
              => Dispatched("Prepare") = Workers)

C10_Witness ==
    /\ phase = "RollingBack"
    /\ Dispatched("Commit") = Workers
    /\ \E w \in Workers : call[w]["Rollback"] = "handled"

\* ---- C11
\* The error RaftNode.Prepare returns for the answer RPCPrepare gives under
\* FailOnPrepare.
PrepareRefused == RaftNode_Prepare(Resp(2, "failed to prepare for txid", wb))

\* C11: when a Put under FailOnPrepare has returned and every worker, having
\* started in Initailized, failed its Prepare, Put returned the prepare error
\* and every worker is in state Initailized.
C11_FailedPrepareLeavesInitialized ==
    (/\ Returned
     /\ policy = FailOnPrepare
     /\ \A w \in Workers : errs["Prepare"][w] = PrepareRefused)
    => /\ ret = PrepareRefused
       /\ \A w \in Workers : node[w].state = Initailized

\* ---- storage claims
\* A Storage method has just returned: the step of StorageSpec that made call c.
Returns(op) == ncalls' = ncalls + 1 /\ last'.op = op
\* the batch of the call carried a TxID that differs from x in some component
Differs(x, y) ==
    \/ x.ConnectionID # y.ConnectionID
    \/ x.SeqNo # y.SeqNo
    \/ x.Timestamp # y.Timestamp
\* the statements a step handed to ExecContext inside transaction h
Ran(h) == SubSeq(dbtx'[h].stmts, Len(dbtx[h].stmts) + 1, Len(dbtx'[h].stmts))

\* ---- C12
\* C12: once a Commit has returned success the Storage has no open
\* transaction and no buffered statements (so that a Prepare with another
\* TxID, which requires s.tx = nil, succeeds).
C12_SuccessfulCommitClears ==
    (last.op = "Commit" /\ last.err = Success)
    => s.tx = NilTx /\ s.queries = <<>>

\* ---- C13
\* C13: a Prepare on a Storage with an open transaction, carrying the TxID of
\* that transaction, returns success, makes the incoming list the buffered
\* list, keeps the open transaction and begins no other; and when it repeats
\* the Prepare that returned just before, it changes nothing.
C13_SameTxIDPrepareReplaces ==
    [][(Returns("Prepare") /\ s.tx # NilTx /\ last'.id = s.id)
       => /\ last'.err = Success
          /\ s' = [tx |-> s.tx, id |-> s.id, queries |-> last'.queries]
          /\ dbtx' = dbtx
          /\ (last = last' => s' = s)]_vars

\* a Prepare of the open transaction's TxID has replaced, after some
\* statements ran, the list that ran by another one
C13_Witness ==
    /\ last.op = "Prepare" /\ last.err = Success
    /\ s.tx # NilTx /\ last.id = s.id
    /\ Len(dbtx) = 1
    /\ dbtx[s.tx].stmts # <<>>
    /\ s.queries = last.queries
    /\ s.queries # dbtx[s.tx].stmts

\* ---- C14
\* C14: a Prepare on a Storage with an open transaction, carrying a TxID that
\* differs from the recorded one in ConnectionID, SeqNo or Timestamp, fails
\* with InconsistentState and leaves the open transaction, the recorded TxID
\* and the buffered statements as they were.
C14_OtherTxIDPrepareRejected ==
    [][(/\ Returns("Prepare")
        /\ last'.err # ErrUnexpectedType
        /\ s.tx # NilTx
        /\ Differs(last'.id, s.id))
       => /\ last'.err = ErrInconsistentState(s.id)
          /\ s' = s
          /\ dbtx' = dbtx]_vars

\* a Prepare whose TxID differs in the Timestamp only was rejected
C14_Witness ==
    /\ last.op = "Prepare"
    /\ s.tx # NilTx
    /\ last.id.ConnectionID = s.id.ConnectionID
    /\ last.id.SeqNo = s.id.SeqNo
    /\ last.id.Timestamp # s.id.Timestamp
    /\ last.err = ErrInconsistentState(s.id)
    /\ dbtx[s.tx].status = "open"

\* ---- C15
\* C15: a Commit of the open transaction's TxID hands the buffered statements
\* to the transaction in list order; when none fails it hands all of them and
\* returns success; at the first that fails it hands no later one, rolls the
\* transaction back, clears s.tx and s.queries, and returns the error of that
\* statement.
C15_CommitInOrderStopsAtFirstFailure ==
    [][(Returns("Commit") /\ s.tx # NilTx /\ last'.id = s.id)
       => LET q == s.queries
              ran == Ran(s.tx)
              bad == last'.fails
          IN  /\ Len(ran) <= Len(q)
              /\ ran = SubSeq(q, 1, Len(ran))
              /\ IF bad = {}
                 THEN ran = q /\ last'.err = Success
                 ELSE LET f == CHOOSE i \in bad : \A j \in bad : i <= j
                      IN  /\ Len(ran) = f
                          /\ last'.err = ErrExec(q[f])
                          /\ dbtx'[s.tx].status = "rolled back"
                          /\ s'.tx = NilTx
                          /\ s'.queries = <<>>]_vars

\* a list of two different statements ran in full, and the next Commit of it
\* failed at the first statement: the transaction holds three statements
C15_Witness ==
    /\ last.op = "Commit"
    /\ last.fails = {1}
    /\ s.tx = NilTx /\ s.queries = <<>>
    /\ Len(dbtx) = 1
    /\ dbtx[1].status = "rolled back"
    /\ Len(dbtx[1].stmts) = 3
    /\ dbtx[1].stmts[1] # dbtx[1].stmts[2]
    /\ dbtx[1].stmts[3] = dbtx[1].stmts[1]
    /\ last.err = ErrExec(dbtx[1].stmts[3])

\* ---- C16
\* C16: a Commit on a Storage with no open transaction fails with
\* TxNotPrepared; on a Storage whose open transaction has another TxID it
\* fails with InconsistentState; either way no statement is executed and the
\* Storage is unchanged.
C16_CommitWithoutMatchingTx ==
    [][(Returns("Commit") /\ last'.err # ErrUnexpectedType)
       => /\ s.tx = NilTx
             => last'.err = ErrTxNotPrepared /\ s' = s /\ dbtx' = dbtx
          /\ (s.tx # NilTx /\ Differs(last'.id, s.id))
             => /\ last'.err = ErrInconsistentState(s.id)
                /\ s' = s
                /\ dbtx' = dbtx]_vars

\* a Commit whose TxID differs in the SeqNo only was rejected with nothing run
C16_Witness ==
    /\ last.op = "Commit"
    /\ s.tx # NilTx
    /\ last.id.ConnectionID = s.id.ConnectionID
    /\ last.id.SeqNo # s.id.SeqNo
    /\ last.id.Timestamp = s.id.Timestamp
    /\ last.err = ErrInconsistentState(s.id)
    /\ dbtx[s.tx].stmts = <<>>
    /\ dbtx[s.tx].status = "open"

\* ---- C17
\* C17: a Rollback on a Storage with no open transaction returns success and
\* changes nothing, whatever the TxID of its batch; on a Storage whose open
\* transaction has the TxID of the batch it returns success, rolls the
\* transaction back and clears s.tx and s.queries.
C17_RollbackWithoutTxSucceeds ==
    [][(Returns("Rollback") /\ last'.err # ErrUnexpectedType)
       => /\ s.tx = NilTx
             => last'.err = Success /\ s' = s /\ dbtx' = dbtx
          /\ (s.tx # NilTx /\ last'.id = s.id)
             => /\ last'.err = Success
                /\ dbtx'[s.tx].status = "rolled back"
                /\ s'.tx = NilTx
                /\ s'.queries = <<>>]_vars

OwnStatementsOnly ==
    /\ \A h \in 1..Len(dbtx) :
           \A i \in 1..Len(dbtx[h].stmts) : dbtx[h].stmts[i].tx = dbtx[h].opener
    /\ s.tx # NilTx
       => /\ s.id = dbtx[s.tx].opener
          /\ \A i \in 1..Len(s.queries) : s.queries[i].tx = s.id

\* C19: with callers of different TxIDs calling Prepare, Commit and Rollback
\* in any interleaving, a transaction is handed statements only by a call
\* carrying the TxID that opened it, only statements buffered for that TxID,
\* and in the order of the buffered list.
C19_TransactionRunsOwnStatementsInOrder ==
    /\ []OwnStatementsOnly
    /\ [][\A h \in 1..Len(dbtx) :
              dbtx'[h].stmts # dbtx[h].stmts
              => /\ h = s.tx
                 /\ last'.id = dbtx[h].opener
                 /\ dbtx'[h].stmts = dbtx[h].stmts \o Ran(h)
                 /\ Len(Ran(h)) <= Len(s.queries)
                 /\ Ran(h) = SubSeq(s.queries, 1, Len(Ran(h)))]_vars

\* a transaction has run its two statements and the Prepare of a caller with
\* another TxID has been turned away
C19_Witness ==
    /\ s.tx # NilTx
    /\ Len(dbtx[s.tx].stmts) = 2
    /\ dbtx[s.tx].stmts = s.queries
    /\ last.op = "Prepare"
    /\ last.id.ConnectionID # s.id.ConnectionID
    /\ last.err = ErrInconsistentState(s.id)

\* ---- C20
\* C20: every thread that has returned from New without error for a DSN that
\* is not a private in-memory database holds the handle cached for the file
\* name, so that all of them share one handle.
C20_CallersShareCachedHandle ==
    \A t \in Callers :
        (caller[t].pc = "done" /\ ~Private(caller[t].dsn) /\ caller[t].err = "nil")
        => caller[t].db = index[caller[t].dsn.filename]

\* ---- C29
\* the call made last, as the handler left the node
Left == node[rpc.w]
\* the inconsistent state RPCPrepare tests for
PrepareInconsistent == rpc.found.state = Prepared /\ rpc.found.txid # rpc.tx

\* C29: an RPCPrepare that found the node Prepared with a TxID other than the
\* request's has reported ErrCode > 0 and left the node's txid and state as
\* it found them.
C29_InconsistentPrepareIsTerminal ==
    (rpc.kind = "Prepare" /\ PrepareInconsistent)
    => rpc.ErrCode > 0 /\ Left = rpc.found

\* ---- C30
\* C30: a handler call that has left the node Committed, having found it in
\* another state, was an RPCCommit that found it Prepared with the request's
\* TxID; and a handler call that has reported ErrCode > 0 has left state and
\* txid as it found them.
C30_CommittedOnlyFromPrepared ==
    /\ (rpc.kind # "none" /\ Left.state = Committed /\ rpc.found.state # Committed)
       => /\ rpc.kind = "Commit"
          /\ rpc.found.state = Prepared
          /\ rpc.found.txid = rpc.tx
    /\ (rpc.kind # "none" /\ rpc.ErrCode > 0) => Left = rpc.found

\* ---- C25
\* the nodes on n's parent chain, n included
RECURSIVE ParentChain(_)
ParentChain(n) ==
    IF n = NilNode THEN {} ELSE {n} \cup ParentChain(blocks[n].parent)

\* C25: for every block node n built and every height h from 0 to n.height,
\* n.ancestor(h) is a node of n's parent chain whose height is h, and n itself
\* when h = n.height; for every other h it is nil.
C25_AncestorAtHeight ==
    \A n \in 1..Len(blocks) :
        \A h \in (-1)..(MaxBlocks + 1) :
            IF 0 <= h /\ h <= blocks[n].height
            THEN /\ ancestor(n, h) \in ParentChain(n)
                 /\ blocks[ancestor(n, h)].height = h
                 /\ h = blocks[n].height => ancestor(n, h) = n
            ELSE ancestor(n, h) = NilNode

\* a chain of three nodes: the ancestor of the tip at height 0 is the genesis
C25_Witness ==
    /\ Len(blocks) >= 3
    /\ blocks[3].height = 2
    /\ ancestor(3, 0) = 1
    /\ ancestor(3, 1) = 2
    /\ ancestor(3, 3) = NilNode

\* ---- C26
\* C26: the node AddBlock inserted last has no parent or a parent that the
\* index held when the node was inserted, and in the second case its height
\* is its parent's height plus one.
C26_ParentPresentAtInsert ==
    (added.node # NilNode /\ blocks[added.node].parent # NilNode)
    => /\ added.parentPresent
       /\ blocks[added.node].height = blocks[blocks[added.node].parent].height + 1

\* ---------------------------------------------------------------- C27
\* The operations that read or write the bucket.
BucketOps == {"GetPublicKey", "GetNodeInfo", "setNode", "DelNode", "GetAllNodeID"}

\* What a caller sees of an empty store: no IDs and no record for any ID.
StoreEmpty ==
    /\ GetAllNodeID(pks) = [err |-> "nil", ids |-> <<>>]
    /\ \A id \in NodeIDs : GetNodeInfo(pks, id).err = ErrKeyNotFound

\* C27: removeBucket leaves the store without a bucket; while it has none,
\* every GetPublicKey, GetNodeInfo, setNode, DelNode and GetAllNodeID call
\* fails with ErrBucketNotInitialized and changes nothing, and only ResetBucket
\* gives the store a bucket again; after ResetBucket the store is empty.
C27_RemovedBucketRefusesUntilReset ==
    /\ [][pkret'.op = "removeBucket" => pks'.bucket = "nil"]_vars
    /\ [][(pks.bucket = "nil" /\ pkret'.op \in BucketOps)
            => (pkret'.err = ErrBucketNotInitialized /\ pks' = pks)]_vars
    /\ [][(pks.bucket = "nil" /\ pks'.bucket # "nil") => pkret'.op = "ResetBucket"]_vars
    /\ [](pkret.op = "ResetBucket" => StoreEmpty)

\* a DelNode call refused after removeBucket
C27_Witness ==
    /\ pks.bucket = "nil"
    /\ pkret.op = "DelNode"
    /\ pkret.err = ErrBucketNotInitialized

\* ---------------------------------------------------------------- C28
\* C28: on a store with a bucket, GetAllNodeID returns each ID inserted (the
\* seed included) and not deleted since exactly once and no other ID, a lookup
\* of any other ID fails with ErrKeyNotFound, and DelNode of an ID that is not
\* stored succeeds and changes nothing.
C28_AllNodeIDsAreTheLiveOnes ==
    /\ [](pks.bucket = "open" =>
            LET ids == GetAllNodeID(pks).ids
            IN  /\ {ids[i] : i \in 1..Len(ids)} = live
                /\ Len(ids) = Cardinality(live)
                /\ \A id \in NodeIDs \ live : GetNodeInfo(pks, id).err = ErrKeyNotFound)
    /\ [][(pks.bucket = "open" /\ pkret'.op = "DelNode" /\ pkret'.id \notin live)
            => (pkret'.err = "nil" /\ pks' = pks)]_vars

\* node2 deleted, the seed and node1 left, as in the test
C28_Witness ==
    /\ pks.bucket = "open"
    /\ live = {BPNodeID, "node1"}
    /\ pkret.op = "DelNode"
    /\ pkret.id = "node2"
    /\ pkret.err = "nil"

\* ---------------------------------------------------------------- C21
\* Request returned a response (not the context's error)
ReturnedResponse(g) ==
    /\ requests[g].pc = "returned"
    /\ requests[g].ret.ResponseID # NoRequest

\* C21: a Request that returns a response returns one that carries its own
\* request ID, with a payload and error that were passed to SendResponse on
\* its own handle.
C21_ReturnsOwnResponse ==
    \A g \in Goroutines :
        ReturnedResponse(g) =>
            /\ requests[g].ret.ResponseID = requests[g].RequestID
            /\ <<requests[g].ret.Payload, requests[g].ret.Error>>
                    \in served[requests[g].RequestID].sent

\* one of two requests outstanding on the same transport has returned its
\* response while the other, not answered yet, is still waiting
C21_Witness ==
    \E g, u \in Goroutines :
        /\ g # u
        /\ ReturnedResponse(g)
        /\ requests[u].transport = requests[g].transport
        /\ requests[u].pc = "select"
        /\ served[requests[u].RequestID].answers = 0
        /\ served[requests[g].RequestID].answers = 1
        /\ g < u

\* ---------------------------------------------------------------- C22
Answered(g) ==
    /\ requests[g].pc # "idle"
    /\ served[requests[g].RequestID].answers > 0
\* the caller's context fired: Request took the Done branch
GaveUp(g) ==
    \/ requests[g].pc = "giveup"
    \/ requests[g].pc = "returned" /\ requests[g].ret.Error = CtxErr

\* C22: with every goroutine scheduled again and again, a Request whose
\* handle has been answered returns a response unless its context fires
\* (or a fatal error has ended the process).
C22_AnsweredRequestReturns ==
    \A g \in Goroutines : Answered(g) ~> (ReturnedResponse(g) \/ GaveUp(g) \/ fatal)

\* ---------------------------------------------------------------- C23
\* C23: a Request that takes the Done branch returns a nil payload with the
\* context's error, and its request ID is in giveUp when it returns.
C23_TimeoutReturnsNilAndMarks ==
    [][\A g \in Goroutines :
        (requests[g].pc = "giveup" /\ requests'[g].pc = "returned") =>
            /\ requests'[g].ret.Payload = NoPayload
            /\ requests'[g].ret.Error = CtxErr
            /\ requests[g].RequestID \in transports'[requests[g].transport].giveUp]_vars

\* ---------------------------------------------------------------- C24
\* C24: a response taken from waitQueue after the caller of its request has
\* given up is neither put back nor returned.
C24_LateResponsesDiscarded ==
    \A g \in Goroutines :
        /\ requests[g].pc = "requeue" => ~requests[g].res.late
        /\ requests[g].pc = "returned" => ~requests[g].ret.late

\* ---------------------------------------------------------------- C31
\* C31: no goroutine stands before an access to a transport's giveUp map
\* while another goroutine stands before an access to the same map and one of
\* the two accesses is a write: the accesses never overlap.
C31_GiveUpAccessesExclusive ==
    \A g \in Goroutines : AtMapAccess(g) => ~Racing(g)

\* ---------------------------------------------------------------- C32
\* Every Request issued to the transport has returned and every handle
\* received from its queue has been answered.
Quiescent(n) ==
    /\ \A g \in Goroutines : requests[g].transport = n => requests[g].pc = "returned"
    /\ \A id \in RequestIDs :
          (served[id].state = "held" /\ requests[CallerOf(id)].transport = n)
              => served[id].answers > 0

\* C32: a transport whose Requests have all returned and whose received
\* handles have all been answered holds no response on waitQueue and no mark
\* in giveUp.
C32_QuiescentTransportIsClean ==
    \A n \in Targets :
        Quiescent(n) =>
            /\ transports[n].waitQueue = <<>>
            /\ transports[n].giveUp = {}

TypeOK ==
    /\ policy \in Policies
    /\ phase \in {"Idle", "Preparing", "Committing", "RollingBack", "Terminal"}
    /\ \A w \in Workers : node[w].state \in {Initailized, Prepared, Committed, RolledBack}
    /\ nput \in 0..MaxPuts
    /\ pks.bucket \in {"nil", "open"}
    /\ live \subseteq NodeIDs
    /\ reqSeq \in 0..MaxRequests
    /\ \A g \in Goroutines :
          requests[g].pc \in {"idle", "select", "giveup", "check", "requeue", "delete", "returned"}
    /\ \A n \in Targets : transports[n].giveUp \subseteq RequestIDs
    /\ abandoned \subseteq RequestIDs
    /\ fatal \in BOOLEAN
====
